---------------------------- MODULE Spec2Model ----------------------------
(***************************************************************************)
(* Model of the ordbog crate (src/src/lib.rs): an order-preserving lossy   *)
(* dictionary.  Dict::new sorts a sample, reduces it to clusters, and      *)
(* either takes one exact code per cluster or calibrates a stepping pass   *)
(* so that at most num_exact_codes() values are kept; Dict::encode maps a  *)
(* query to an even (exact) or odd (inexact) code by binary search.        *)
(*                                                                         *)
(* The value type T is modelled as i32 restricted to a small range; every  *)
(* usize stays far below 2^64 inside the bounds, so no arithmetic wraps.   *)
(* Vectors are TLA+ sequences; the code's 0-based index idx is kept and    *)
(* the element it denotes is s[idx + 1].                                   *)
(***************************************************************************)
EXTENDS Integers, Sequences, FiniteSets, TLC

VARIABLES
    mode,        \* Dict.mode
    sample,      \* the sample handed to Dict::new
    codes,       \* Dict.codes / the local `codes` of the calibration
    pc,          \* position: "start", "loop", "done", "passed", "built", "panic"
    query,       \* argument of the last Dict::encode call
    code,        \* Code returned by the last Dict::encode call
    clu,         \* the cluster vector (local `clu`)
    ncodes,      \* local `ncodes`
    samplesize,  \* parameter `samplesize` of assign_codes_with_minimal_step
    codestep,    \* local `codestep`
    bias,        \* local `bias` of the last calibration iteration
    next_codes,  \* result of the last assign_codes_with_step pass
    iter         \* number of calibration loop iterations entered so far

vars == <<mode, sample, codes, pc, query, code, clu, ncodes, samplesize,
          codestep, bias, next_codes, iter>>

---------------------------------------------------------------------------
(* Bounds of the model *)

\* longest sample among the exhaustively enumerated small samples
MaxSmallLen == 3
\* small samples take their values in -MaxSmallVal .. MaxSmallVal
MaxSmallVal == 1
\* large samples have N .. N+1+MaxExtra or 2N .. 2N+MaxExtra distinct values
MaxExtra == 1
\* multiplicity of the frequent values of a large sample
MaxHeavy == 2
\* longest cluster vector handed directly to the code assigner
MaxClu == 5
\* largest cluster count handed directly to the code assigner
MaxCount == 3
\* largest step handed directly to assign_codes_with_step
MaxStep == 4

---------------------------------------------------------------------------
(* Mode, Code, Default *)

Modes == {"Byte", "Word"}

ByteExactCodes == 127
WordExactCodes == 32767
ByteMaxInexact == 255
WordMaxInexact == 65535
ByteMaxExact == 254
WordMaxExact == 65534

num_exact_codes(m) == IF m = "Byte" THEN ByteExactCodes ELSE WordExactCodes

max_exact_code(m) == IF m = "Byte" THEN ByteMaxExact ELSE WordMaxExact

max_inexact_code(m) == IF m = "Byte" THEN ByteMaxInexact ELSE WordMaxInexact

\* Code::is_exact: (self.0 & 1) == 0
is_exact(c) == c % 2 = 0

\* <i32 as Default>::default()
DefaultValue == 0

\* u16::MAX, the bound asserted in encode; `code as u16` keeps 16 bits
U16Max == 65535
U16Modulus == 65536

---------------------------------------------------------------------------
(* Dict::clusters *)

Cluster(v, c) == [value |-> v, count |-> c]

\* ClustersBody with `curr = i` forgotten when a new run starts
ClustersBodyKeepsCurr(s, st, k) ==
    IF s[k + 1] = st.curr
    THEN [st EXCEPT !.count = st.count + 1]
    ELSE [curr |-> st.curr, count |-> 1,
          clu |-> Append(st.clu, Cluster(st.curr, st.count))]

\* the body of `for i in sorted_sample.iter()` for the element at 0-based
\* position k; st holds the locals curr, count and clu
ClustersBody(s, st, k) ==
    IF s[k + 1] = st.curr
    THEN [st EXCEPT !.count = st.count + 1]
    ELSE [curr |-> s[k + 1], count |-> 1,
          clu |-> Append(st.clu, Cluster(st.curr, st.count))]

\* the loop over positions lo .. hi-1 in order: the first half of the
\* iterations, then the second half on the locals h the first half left
\* (halved, and h bound to a value, only to keep the evaluation depth
\* logarithmic in the sample length)
RECURSIVE ClustersLoop(_, _, _, _)
ClustersLoop(s, st, lo, hi) ==
    IF hi <= lo THEN st
    ELSE IF hi = lo + 1 THEN ClustersBody(s, st, lo)
    ELSE LET mid == lo + ((hi - lo) \div 2)
         IN CHOOSE r \in {ClustersLoop(s, h, mid, hi) :
                            h \in {ClustersLoop(s, st, lo, mid)}} : TRUE

\* clusters with the push of the last run forgotten
clustersDropsLast(sorted_sample) ==
    IF sorted_sample # <<>>
    THEN ClustersLoop(sorted_sample,
                      [curr |-> sorted_sample[1], count |-> 0, clu |-> <<>>],
                      0, Len(sorted_sample)).clu
    ELSE <<>>

clusters(sorted_sample) ==
    IF sorted_sample # <<>>
    THEN LET st == ClustersLoop(sorted_sample,
                                [curr |-> sorted_sample[1], count |-> 0, clu |-> <<>>],
                                0, Len(sorted_sample))
         IN Append(st.clu, Cluster(st.curr, st.count))
    ELSE <<>>

---------------------------------------------------------------------------
(* Dict::encode *)

\* binary search that drops the probed element's left neighbour on Greater
RECURSIVE BinarySearchLoopNarrow(_, _, _, _)
BinarySearchLoopNarrow(s, q, left, right) ==
    IF left < right
    THEN LET mid == left + ((right - left) \div 2)
         IN IF s[mid + 1] < q THEN BinarySearchLoopNarrow(s, q, mid + 1, right)
            ELSE IF s[mid + 1] > q THEN BinarySearchLoopNarrow(s, q, left, mid - 1)
            ELSE [ok |-> TRUE, idx |-> mid]
    ELSE [ok |-> FALSE, idx |-> left]

\* slice::binary_search: Ok(idx) on a hit, Err(idx) with the insertion point
RECURSIVE BinarySearchLoop(_, _, _, _)
BinarySearchLoop(s, q, left, right) ==
    IF left < right
    THEN LET mid == left + ((right - left) \div 2)
         IN IF s[mid + 1] < q THEN BinarySearchLoop(s, q, mid + 1, right)
            ELSE IF s[mid + 1] > q THEN BinarySearchLoop(s, q, left, mid)
            ELSE [ok |-> TRUE, idx |-> mid]
    ELSE [ok |-> FALSE, idx |-> left]

binary_search(s, q) == BinarySearchLoop(s, q, 0, Len(s))

\* exact codes counted from 0 instead of 2
ExactCodeAtFromZero(idx) == 2 * idx

\* Ok(idx) => 2 * (idx + 1)
ExactCodeAt(idx) == 2 * (idx + 1)

\* the inexact code without its `- 1`
InexactCodeAtNoMinus(idx) == 2 * (idx + 1)

\* Err(idx) => (2 * (idx + 1)) - 1
InexactCodeAt(idx) == (2 * (idx + 1)) - 1

\* the match with its Ok and Err arms exchanged
encode_codeArmsSwapped(cs, q) ==
    LET r == binary_search(cs, q)
    IN IF r.ok THEN InexactCodeAt(r.idx) ELSE ExactCodeAt(r.idx)

\* the usize `code` computed by the match
encode_code(cs, q) ==
    LET r == binary_search(cs, q)
    IN IF r.ok THEN ExactCodeAt(r.idx) ELSE InexactCodeAt(r.idx)

\* assert!(code <= 0xffff)
encode_assert(cs, q) == encode_code(cs, q) <= U16Max

\* the code cast to u8 instead of u16
encodeAsU8(cs, q) == encode_code(cs, q) % 256

\* Code(code as u16)
encode(cs, q) == encode_code(cs, q) % U16Modulus

---------------------------------------------------------------------------
(* Dict::assign_codes_with_step *)

\* the inner while loop: grows the window until its counts reach codestep
RECURSIVE InnerLoop(_, _, _, _, _)
InnerLoop(codestep_, c, last_idx, idx_with_max_val, cluster_count_sum) ==
    IF last_idx < Len(c) /\ cluster_count_sum < codestep_
    THEN InnerLoop(codestep_, c, last_idx + 1,
                   IF c[idx_with_max_val + 1].count < c[last_idx + 1].count
                   THEN last_idx ELSE idx_with_max_val,
                   cluster_count_sum + c[last_idx + 1].count)
    ELSE [last_idx |-> last_idx, idx_with_max_val |-> idx_with_max_val]

\* the next window opening at last_idx, no cluster skipped
NextFirstIdxNoSkip(last_idx) == last_idx

\* first_idx = last_idx + 1
NextFirstIdx(last_idx) == last_idx + 1

\* one test-and-body of the outer while loop on the locals first_idx and
\* codes; once the loop condition is false nothing changes any more
OuterBody(codestep_, c, st) ==
    IF st.first_idx < Len(c)
    THEN LET w == InnerLoop(codestep_, c, st.first_idx, st.first_idx, 0)
         IN [first_idx |-> NextFirstIdx(w.last_idx),
             codes |-> Append(st.codes, c[w.idx_with_max_val + 1].value)]
    ELSE st

\* n successive rounds of the outer loop: the first half of the rounds, then
\* the rest on the locals h they left (halved, and h bound to a value, only
\* to keep the evaluation depth logarithmic)
RECURSIVE OuterLoop(_, _, _, _)
OuterLoop(codestep_, c, st, n) ==
    IF n <= 0 THEN st
    ELSE IF n = 1 THEN OuterBody(codestep_, c, st)
    ELSE CHOOSE r \in {OuterLoop(codestep_, c, h, n - (n \div 2)) :
                         h \in {OuterLoop(codestep_, c, st, n \div 2)}} : TRUE

\* first_idx grows by at least one per round, so Len(c) rounds end the loop
assign_codes_with_step(codestep_, c) ==
    OuterLoop(codestep_, c, [first_idx |-> 0, codes |-> <<>>], Len(c)).codes

---------------------------------------------------------------------------
(* Dict::assign_codes_with_minimal_step *)

\* the fixed-point scale of the bias
BiasScale == 10000
\* `for _ in 0..=8`: the loop body runs at most 9 times
MaxIterations == 9

\* the ratio taken upside down: target over length
BiasInverted(len, n) == (n * BiasScale) \div len

\* let bias = (codes.len() * 10000) / ncodes
Bias(len, n) == (len * BiasScale) \div n

\* the step divided before it is multiplied
ShrinkStepDivFirst(codestep_, bias_) == (codestep_ \div BiasScale) * bias_

\* codestep *= bias; codestep /= 10000
ShrinkStep(codestep_, bias_) == (codestep_ * bias_) \div BiasScale

\* codes.resize(ncodes, default): truncates, or pads with the default value
resize(cs, n, fill) ==
    [i \in 1..n |-> IF i <= Len(cs) THEN cs[i] ELSE fill]

\* the three entry assertions
CalPrecondition(samplesize_, n, c) ==
    samplesize_ # 0 /\ n # 0 /\ n < samplesize_

\* state of the calibration before the loop
CalStart(samplesize_, n, c) ==
    LET step0 == samplesize_ \div n
        out == assign_codes_with_step(step0, c)
    IN [codes |-> out, codestep |-> step0, bias |-> 0, next_codes |-> out,
        running |-> TRUE, panic |-> FALSE]

\* the loop body accepting every recomputed pass, whatever its length
CalStepAcceptsAll(st, n, c) ==
    IF st.codes = <<>>
    THEN [st EXCEPT !.running = FALSE, !.panic = TRUE]
    ELSE IF Len(st.codes) = n
    THEN [st EXCEPT !.running = FALSE]
    ELSE IF Len(st.codes) > n
    THEN [st EXCEPT !.codes = resize(st.codes, n, DefaultValue), !.running = FALSE]
    ELSE LET b == Bias(Len(st.codes), n)
             step1 == ShrinkStep(st.codestep, b)
             nxt == assign_codes_with_step(step1, c)
         IN [st EXCEPT !.codes = nxt, !.codestep = step1, !.bias = b,
                       !.next_codes = nxt]

\* one execution of the loop body on the calibration state st
CalStep(st, n, c) ==
    IF st.codes = <<>>
    THEN [st EXCEPT !.running = FALSE, !.panic = TRUE]
    ELSE IF Len(st.codes) = n
    THEN [st EXCEPT !.running = FALSE]
    ELSE IF Len(st.codes) > n
    THEN [st EXCEPT !.codes = resize(st.codes, n, DefaultValue), !.running = FALSE]
    ELSE LET b == Bias(Len(st.codes), n)
             step1 == ShrinkStep(st.codestep, b)
             nxt == assign_codes_with_step(step1, c)
         IN IF Len(nxt) <= n
            THEN [st EXCEPT !.codes = nxt, !.codestep = step1, !.bias = b,
                            !.next_codes = nxt]
            ELSE [st EXCEPT !.codestep = step1, !.bias = b, !.next_codes = nxt,
                            !.running = FALSE]

\* the loop, i counting the iterations already entered
RECURSIVE CalLoop(_, _, _, _)
CalLoop(st, n, c, i) ==
    IF i < MaxIterations /\ st.running
    THEN CalLoop(CalStep(st, n, c), n, c, i + 1)
    ELSE st

\* the returned vector; <<>> stands for a failed assertion (never a result)
assign_codes_with_minimal_step(samplesize_, n, c) ==
    IF ~CalPrecondition(samplesize_, n, c)
    THEN [codes |-> <<>>, panic |-> TRUE]
    ELSE LET st == CalLoop(CalStart(samplesize_, n, c), n, c, 0)
         IN [codes |-> st.codes, panic |-> st.panic]

---------------------------------------------------------------------------
(* Dict::new *)

\* sample.sort_unstable()
sort_unstable(s) == SortSeq(s, LAMBDA a, b : a < b)

\* clu.into_iter().map(|c| c.value).collect()
ClusterValues(c) == [i \in 1..Len(c) |-> c[i].value]

\* Dict::new without its special case for the empty sample
DictNewNoEmptyCase(m, s) ==
    LET sorted == SortSeq(s, LAMBDA a, b : a < b)
        c == clusters(sorted)
        n == num_exact_codes(m)
    IN IF c = <<>>
       THEN [codes |-> <<>>, clu |-> c, panic |-> TRUE]
       ELSE IF Len(c) <= n
       THEN [codes |-> ClusterValues(c), clu |-> c, panic |-> FALSE]
       ELSE LET r == assign_codes_with_minimal_step(Len(sorted), n, c)
            IN [codes |-> r.codes, clu |-> c, panic |-> r.panic]

\* the result of Dict::new: the codes vector, or a failed assertion
DictNew(m, s) ==
    IF s = <<>>
    THEN [codes |-> <<DefaultValue>>, clu |-> <<>>, panic |-> FALSE]
    ELSE LET sorted == sort_unstable(s)
             c == clusters(sorted)
             n == num_exact_codes(m)
         IN IF c = <<>>
            THEN [codes |-> <<>>, clu |-> c, panic |-> TRUE]
            ELSE IF Len(c) <= n
            THEN [codes |-> ClusterValues(c), clu |-> c, panic |-> FALSE]
            ELSE LET r == assign_codes_with_minimal_step(Len(sorted), n, c)
                 IN [codes |-> r.codes, clu |-> c, panic |-> r.panic]

---------------------------------------------------------------------------
(* Inputs *)

RangeOf(s) == {s[i] : i \in DOMAIN s}

\* every sequence over vals of length at most n
SeqsUpTo(vals, n) == UNION {[1..k -> vals] : k \in 0..n}

SmallSamples == SeqsUpTo((0 - MaxSmallVal)..MaxSmallVal, MaxSmallLen)

\* numbers of distinct values around N and 2N for N = 127
BigDistinct ==
    (ByteExactCodes..(ByteExactCodes + 1 + MaxExtra))
        \cup ((2 * ByteExactCodes)..(2 * ByteExactCodes + MaxExtra))

\* the values n, n-1, .., 1 in descending order, followed by h-1 further
\* copies of every multiple of 3
BigSample(n, h) ==
    [k \in 1..n |-> n + 1 - k]
        \o [k \in 1..((n \div 3) * (h - 1)) |-> 3 * (1 + ((k - 1) % (n \div 3)))]

BigSamples == {BigSample(n, h) : n \in BigDistinct, h \in 1..MaxHeavy}

\* the queries tried against a dictionary: the default, the sample's values,
\* and the neighbours of each
Probe(s) == UNION {{v - 1, v, v + 1} : v \in RangeOf(s) \cup {DefaultValue}}

\* cluster vectors handed directly to the code assigner: at least two
\* clusters, values strictly increasing, counts in 1..MaxCount
ClusterSeqs ==
    UNION {{[i \in 1..n |-> Cluster(3 * i, cnt[i])] : cnt \in [1..n -> 1..MaxCount]}
           : n \in 2..MaxClu}

\* cluster vectors of the size Dict::new hands over in Byte mode: more than
\* 127 clusters, all of count c but the last, of count c + 1
ByteClusterSeqs ==
    {[i \in 1..n |-> Cluster(3 * i, IF i = n THEN c + 1 ELSE c)] :
        n \in (ByteExactCodes + 1)..(ByteExactCodes + 1 + MaxExtra),
        c \in {1, ByteExactCodes - 1}}

\* the targets tried with a cluster vector: 127 for a vector of Byte size,
\* else every target below the number of clusters
TargetsFor(c) ==
    IF Len(c) > ByteExactCodes THEN {ByteExactCodes} ELSE 1..(Len(c) - 1)

\* the sum of the counts of clusters lo .. hi of c
RECURSIVE SumCounts(_, _, _)
SumCounts(c, lo, hi) ==
    IF hi < lo THEN 0
    ELSE IF hi = lo THEN c[lo].count
    ELSE LET mid == lo + ((hi - lo) \div 2)
         IN SumCounts(c, lo, mid) + SumCounts(c, mid + 1, hi)

---------------------------------------------------------------------------
(* Specification of the dictionary: Dict::new, then Dict::encode *)

Init ==
    /\ mode \in Modes
    /\ sample \in SmallSamples \cup BigSamples
    /\ codes = <<>>
    /\ pc = "start"
    /\ query = DefaultValue
    /\ code = 0
    /\ clu = <<>>
    /\ ncodes = 0
    /\ samplesize = 0
    /\ codestep = 0
    /\ bias = 0
    /\ next_codes = <<>>
    /\ iter = 0

\* Dict::new(mode, sample)
New ==
    /\ pc = "start"
    /\ LET r == DictNew(mode, sample)
       IN /\ codes' = r.codes
          /\ clu' = r.clu
          /\ pc' = IF r.panic THEN "panic" ELSE "built"
    /\ UNCHANGED <<mode, sample, query, code, ncodes, samplesize, codestep,
                   bias, next_codes, iter>>

\* d.encode(&q).  A Dict is immutable once built, so every call sees the same
\* dictionary whatever calls came before it: one call per behaviour is kept.
Encode(q) ==
    /\ pc = "built"
    /\ query' = q
    /\ IF encode_assert(codes, q)
       THEN code' = encode(codes, q) /\ pc' = "encoded"
       ELSE code' = code /\ pc' = "panic"
    /\ UNCHANGED <<mode, sample, codes, clu, ncodes, samplesize, codestep,
                   bias, next_codes, iter>>

Next == New \/ \E q \in Probe(sample) : Encode(q)

Spec == Init /\ [][Next]_vars

---------------------------------------------------------------------------
(* Specification of the code assigner on its own: a single pass of        *)
(* assign_codes_with_step, or assign_codes_with_minimal_step one loop     *)
(* iteration at a time                                                    *)

InitAssign ==
    /\ clu \in ClusterSeqs \cup ByteClusterSeqs
    /\ ncodes \in TargetsFor(clu)
    /\ samplesize = SumCounts(clu, 1, Len(clu))
    /\ mode = "Byte"
    /\ sample = <<>>
    /\ codes = <<>>
    /\ pc = "start"
    /\ query = DefaultValue
    /\ code = 0
    /\ codestep = 0
    /\ bias = 0
    /\ next_codes = <<>>
    /\ iter = 0

\* assign_codes_with_step(s, &clu)
Pass(s) ==
    /\ pc = "start"
    /\ codestep' = s
    /\ next_codes' = assign_codes_with_step(s, clu)
    /\ pc' = "passed"
    /\ UNCHANGED <<mode, sample, codes, query, code, clu, ncodes, samplesize,
                   bias, iter>>

\* assign_codes_with_minimal_step up to the loop
CalBegin ==
    /\ pc = "start"
    /\ IF CalPrecondition(samplesize, ncodes, clu)
       THEN LET st == CalStart(samplesize, ncodes, clu)
            IN /\ codes' = st.codes
               /\ codestep' = st.codestep
               /\ bias' = st.bias
               /\ next_codes' = st.next_codes
               /\ pc' = "loop"
       ELSE pc' = "panic" /\ UNCHANGED <<codes, codestep, bias, next_codes>>
    /\ UNCHANGED <<mode, sample, query, code, clu, ncodes, samplesize, iter>>

\* one iteration of the calibration loop; the function returns `codes`
\* when the iteration breaks or was the last one
CalIterate ==
    /\ pc = "loop"
    /\ iter < MaxIterations
    /\ LET st == CalStep([codes |-> codes, codestep |-> codestep, bias |-> bias,
                          next_codes |-> next_codes, running |-> TRUE,
                          panic |-> FALSE], ncodes, clu)
       IN /\ codes' = st.codes
          /\ codestep' = st.codestep
          /\ bias' = st.bias
          /\ next_codes' = st.next_codes
          /\ iter' = iter + 1
          /\ pc' = IF st.panic THEN "panic"
                   ELSE IF st.running /\ iter + 1 < MaxIterations THEN "loop"
                   ELSE "done"
    /\ UNCHANGED <<mode, sample, query, code, clu, ncodes, samplesize>>

NextAssign == (\E s \in 0..MaxStep : Pass(s)) \/ CalBegin \/ CalIterate

SpecAssign == InitAssign /\ [][NextAssign]_vars

---------------------------------------------------------------------------
(* Properties of the dictionary (checked under Spec) *)

StrictlyIncreasing(s) == \A i \in 1..(Len(s) - 1) : s[i] < s[i + 1]

\* Dict::new has returned
Built == pc \in {"built", "encoded"}

\* Dict::new went through assign_codes_with_minimal_step
Calibrated == Built /\ Len(clu) > num_exact_codes(mode)

\* C1: encode is monotone: for the encoded query a and every value b,
\* encode(a) < encode(b) implies a < b, a < b implies encode(a) <= encode(b),
\* (and the same with a and b exchanged), and a = b implies equal codes.
C1_Monotone ==
    pc = "encoded" =>
        \A b \in Probe(sample) :
            LET cb == encode(codes, b)
            IN /\ code < cb => query < b
               /\ cb < code => b < query
               /\ query < b => code <= cb
               /\ b < query => cb <= code
               /\ query = b => code = cb

\* two different values of a calibrated dictionary share an inexact code
C1_Witness ==
    /\ pc = "encoded"
    /\ Calibrated
    /\ \E b \in Probe(sample) : query < b /\ encode(codes, b) = code
    /\ \E b \in Probe(sample) : query < b /\ encode(codes, b) > code

\* C2: sandwich law: when the code of the encoded value v is exact, every
\* smaller value has a strictly smaller code and every larger value a
\* strictly larger one.
C2_Sandwich ==
    (pc = "encoded" /\ is_exact(code)) =>
        \A q \in Probe(sample) :
            /\ q < query => encode(codes, q) < code
            /\ q > query => encode(codes, q) > code

C2_Witness ==
    /\ pc = "encoded"
    /\ is_exact(code)
    /\ Calibrated
    /\ \E q \in Probe(sample) : q < query
    /\ \E q \in Probe(sample) : q > query

\* C3: every code returned by encode is at least 1 and at most
\* max_inexact_code() of the mode, and no assertion of encode fails.
C3_CodeRange ==
    /\ pc # "panic"
    /\ pc = "encoded" => (1 <= code /\ code <= max_inexact_code(mode))

\* a Byte dictionary returns its largest code, and another query returns 1
C3_Witness ==
    /\ pc = "encoded"
    /\ mode = "Byte"
    /\ code = ByteMaxInexact
    /\ encode(codes, codes[1] - 1) = 1

\* C4: the dictionary returned by Dict::new is well formed: codes is strictly
\* increasing and holds between 1 and num_exact_codes() entries.
C4_WellFormed ==
    Built =>
        /\ StrictlyIncreasing(codes)
        /\ 1 <= Len(codes)
        /\ Len(codes) <= num_exact_codes(mode)

\* the calibrated path, ending below the target
C4_Witness ==
    /\ Calibrated
    /\ mode = "Byte"
    /\ 1 < Len(codes)
    /\ Len(codes) < ByteExactCodes

\* C5: a hit at (0-based) index i is coded 2*(i+1), a miss is coded 2*(i+1)-1
\* with i the number of entries below the query; the code is even exactly
\* when the query is an entry, and entry i alone has code 2*(i+1).
C5_Interleaving ==
    pc = "encoded" =>
        LET below == Cardinality({i \in DOMAIN codes : codes[i] < query})
        IN /\ \A i \in DOMAIN codes : codes[i] = query => code = 2 * ((i - 1) + 1)
           /\ query \notin RangeOf(codes) => code = (2 * (below + 1)) - 1
           /\ is_exact(code) <=> query \in RangeOf(codes)
           /\ \A i \in DOMAIN codes : encode(codes, codes[i]) = 2 * ((i - 1) + 1)

\* a hit beyond the first entry and a miss between two entries both happen
C5_Witness ==
    /\ pc = "encoded"
    /\ Calibrated
    /\ \E i \in DOMAIN codes : i > 1 /\ codes[i] = query
    /\ \E q \in Probe(sample) :
          /\ q \notin RangeOf(codes)
          /\ codes[1] < q
          /\ q < codes[Len(codes)]

\* the encoded query lies above every entry of codes
AboveAll == pc = "encoded" /\ \A i \in DOMAIN codes : codes[i] < query

\* C6 as stated: a query above every entry is coded max_inexact_code().
C6_Original == AboveAll => code = max_inexact_code(mode)

\* C6 as amended: a query above every entry is coded 2*codes.len()+1, the final
\* odd code of that dictionary; this is at most max_inexact_code() and equals
\* it exactly when codes holds num_exact_codes() entries.
C6_FinalOddCode ==
    AboveAll =>
        /\ code = (2 * Len(codes)) + 1
        /\ code <= max_inexact_code(mode)
        /\ code = max_inexact_code(mode) <=> Len(codes) = num_exact_codes(mode)

\* a full Byte dictionary built by calibration returns 0xff
C6_Witness ==
    /\ AboveAll
    /\ Calibrated
    /\ mode = "Byte"
    /\ Len(codes) = ByteExactCodes
    /\ code = ByteMaxInexact

\* number of occurrences of v in s
Occurrences(s, v) == Cardinality({k \in DOMAIN s : s[k] = v})

\* C7: when a non-empty sample has at most num_exact_codes() distinct values,
\* codes is exactly the distinct values in ascending order, one per cluster,
\* each cluster counting the occurrences of its value (positive, summing to
\* the sample size); every value of the sample then gets an exact code.
C7_ClustersPath ==
    (sample # <<>> /\ Cardinality(RangeOf(sample)) <= num_exact_codes(mode)) =>
        /\ pc = "built" =>
              /\ StrictlyIncreasing(codes)
              /\ RangeOf(codes) = RangeOf(sample)
              /\ Len(clu) = Len(codes)
              /\ \A i \in DOMAIN clu :
                    /\ clu[i].value = codes[i]
                    /\ clu[i].count > 0
                    /\ clu[i].count = Occurrences(sample, codes[i])
              /\ SumCounts(clu, 1, Len(clu)) = Len(sample)
        /\ (pc = "encoded" /\ query \in RangeOf(sample)) => is_exact(code)

\* an unsorted sample with a repeated value, one of its values encoded
C7_Witness ==
    /\ pc = "encoded"
    /\ Len(sample) = 3
    /\ sample[1] > sample[2]
    /\ sample[1] = sample[3]
    /\ query = sample[1]
    /\ Len(codes) = 2

\* C8: for an empty sample codes is the single default value; queries below
\* the default are coded 1, the default 2, and queries above it 3.
C8_EmptySample ==
    (sample = <<>> /\ pc # "start") =>
        /\ Built
        /\ codes = <<DefaultValue>>
        /\ pc = "encoded" =>
              /\ query < DefaultValue => code = 1
              /\ query = DefaultValue => code = 2
              /\ query > DefaultValue => code = 3

C8_Witness == pc = "encoded" /\ sample = <<>> /\ mode = "Word" /\ query > DefaultValue

---------------------------------------------------------------------------
(* Properties of the code assigner (checked under SpecAssign) *)

\* Reference windowing, on 1-based cluster positions.  The window opened at
\* f ends at the first position e >= f at which the counts of f..e sum to at
\* least step, or at the last cluster when the sum never reaches step.
RefWindowEnd(step, c, f) ==
    IF \E e \in f..Len(c) : SumCounts(c, f, e) >= step
    THEN CHOOSE e \in f..Len(c) :
            /\ SumCounts(c, f, e) >= step
            /\ \A m \in f..(e - 1) : SumCounts(c, f, m) < step
    ELSE Len(c)

\* the position of the maximum count in f..e, the lowest position on ties
RefWindowPick(c, f, e) ==
    CHOOSE i \in f..e :
        \A j \in f..e :
            \/ c[j].count < c[i].count
            \/ (c[j].count = c[i].count /\ i <= j)

\* the windows from position f on: after a window f..e the cluster e+1 is
\* left out and the next window opens at e+2
RECURSIVE RefWindows(_, _, _)
RefWindows(step, c, f) ==
    IF f > Len(c) THEN <<>>
    ELSE LET e == RefWindowEnd(step, c, f)
         IN <<[first |-> f, last |-> e]>> \o RefWindows(step, c, e + 2)

\* one value per window: that of its picked cluster
RefEmitted(step, c) ==
    LET ws == RefWindows(step, c, 1)
    IN [k \in 1..Len(ws) |-> c[RefWindowPick(c, ws[k].first, ws[k].last)].value]

\* a pass of assign_codes_with_step has produced next_codes from codestep
PassDone == pc \in {"passed", "loop", "done"}

\* C9: for a step of at least 1 the values emitted by assign_codes_with_step
\* are those of the reference windowing: one per window, the first cluster
\* of maximum count in it, the cluster after each closed window left out.
C9_Windowing ==
    (PassDone /\ codestep >= 1) => next_codes = RefEmitted(codestep, clu)

\* a pass closing a window of several clusters on a tie, then skipping one
C9_Witness ==
    /\ pc = "passed"
    /\ codestep = 2
    /\ Len(clu) = 5
    /\ clu[1].count = 1
    /\ clu[2].count = 1
    /\ clu[3].count = 3
    /\ next_codes = <<clu[1].value, clu[4].value>>

\* a calibration iteration that finds fewer than ncodes entries is about to run
Shrinking == pc = "loop" /\ iter < MaxIterations /\ Len(codes) < ncodes

\* C10 as stated: the next step is floor(floor(step * len * 10000 / N) / 10000).
C10_Original ==
    [][Shrinking =>
          codestep' = ((codestep * Len(codes) * 10000) \div ncodes) \div 10000]_vars

\* C10 as amended: the next step is floor(step * floor(len * 10000 / N) / 10000):
\* the ratio len/N is truncated to four decimals before it multiplies the step.
C10_ShrunkStep ==
    [][Shrinking =>
          codestep' = (codestep * ((Len(codes) * 10000) \div ncodes)) \div 10000]_vars

\* a shrinking iteration has run and left a step of at least 1
C10_Witness ==
    /\ pc \in {"loop", "done"}
    /\ iter >= 1
    /\ bias > 0
    /\ codestep >= 1
    /\ Len(next_codes) <= ncodes

\* the first pass of the calibration: step = samplesize / ncodes
FirstPass == assign_codes_with_step(samplesize \div ncodes, clu)

\* a calibration iteration is about to run and will accept its pass
Accepting ==
    /\ Shrinking
    /\ Len(assign_codes_with_step(
               ShrinkStep(codestep, Bias(Len(codes), ncodes)), clu)) <= ncodes

\* C11: a recomputed pass that replaces codes has at least as many entries as
\* the codes it replaces and at most ncodes; the codes held in and returned
\* from the loop have at least as many entries as the first pass; and a pass
\* with a step one smaller never emits fewer values.
C11_AcceptedImproves ==
    /\ [][Accepting => /\ codes' = next_codes'
                       /\ Len(codes') >= Len(codes)
                       /\ Len(codes') <= ncodes]_vars
    /\ [](pc \in {"loop", "done"} => Len(codes) >= Len(FirstPass))
    /\ []((pc = "passed" /\ codestep >= 1) =>
             Len(assign_codes_with_step(codestep - 1, clu)) >= Len(next_codes))

\* an accepted pass with a step of at least 1 has left more entries than the
\* first pass had
C11_Witness ==
    /\ pc \in {"loop", "done"}
    /\ iter >= 1
    /\ codestep >= 1
    /\ codes = next_codes
    /\ Len(codes) > Len(FirstPass)

\* C12: a calibration iteration that shrinks the step to 0 runs a pass that
\* emits the value of every cluster, more than ncodes of them; the pass is
\* rejected, the loop ends without a failed assertion, and the codes accepted
\* before (1 to ncodes - 1 entries, strictly increasing) are what is
\* returned.  A pass with step 0 on its own emits every cluster's value too.
C12_StepZero ==
    /\ [][(Shrinking /\ codestep' = 0) =>
              /\ next_codes' = ClusterValues(clu)
              /\ Len(next_codes') > ncodes
              /\ codes' = codes
              /\ pc' = "done"
              /\ Len(codes') >= 1
              /\ Len(codes') <= ncodes - 1
              /\ StrictlyIncreasing(codes')]_vars
    /\ []((pc = "passed" /\ codestep = 0) => next_codes = ClusterValues(clu))

\* a calibration over more than 127 clusters in which the step
\* fell to 0 and ended the loop
C12_Witness ==
    /\ pc = "done"
    /\ iter >= 1
    /\ codestep = 0
    /\ Len(clu) > ByteExactCodes
    /\ ncodes = ByteExactCodes
    /\ Len(next_codes) = Len(clu)
    /\ Len(codes) < ncodes

\* C13: the overshoot branch is never taken.  The first pass emits at most
\* ncodes values, so does every codes vector the loop holds or returns, and
\* codes only ever changes to the pass just computed: every entry is the
\* value of a cluster, none is cut off and no default value is appended.
C13_NoOvershoot ==
    /\ []((pc \in {"loop", "done"} /\ Len(clu) > ncodes) =>
             /\ Len(FirstPass) <= ncodes
             /\ Len(codes) <= ncodes
             /\ RangeOf(codes) \subseteq RangeOf(ClusterValues(clu))
             /\ StrictlyIncreasing(codes))
    /\ [][(pc = "loop" /\ Len(clu) > ncodes) =>
              (codes' = codes \/ codes' = next_codes')]_vars

\* the first pass has emitted exactly ncodes values from more than ncodes
\* clusters, and the loop has returned them
C13_Witness ==
    /\ pc = "done"
    /\ iter = 1
    /\ Len(clu) > ncodes
    /\ Len(codes) = ncodes
    /\ codes = FirstPass

===========================================================================
